---- MODULE Spec2Model ----
(***************************************************************************)
(* The resumable concurrent enrichment engines of gif-picker:              *)
(*   describe_gifs.py    - the remote-reference engine ("gifs"),           *)
(*   describe_sources.py - the manifest engine ("sources").                *)
(* One run = one invocation of main(); the output sink and the manifest    *)
(* on disk survive between runs, everything else is per-run memory.        *)
(***************************************************************************)
EXTENDS Integers, Sequences, FiniteSets, TLC

\* ---- bounds of the model
NumItems == 2        \* entries in the input catalog
MaxWorkers == 2      \* largest --workers value tried
MaxLimit == 1        \* largest non-zero --limit value tried
MaxK == 5            \* largest num_frames tried by the sampler specification
MaxF == 13           \* largest n_frames tried by the sampler specification

\* ---- program constants
NUM_FRAMES == 5
RETRIES == 1

VARIABLES
    engine,        \* "gifs" | "sources": which script runs
    tsv,           \* gifs: the raw URLs of the TSV catalog, in file order
    workers,       \* args.workers
    sink,          \* the output JSONL file on disk: a sequence of lines
    manifestDisk,  \* sources: manifest.json on disk, item index -> item record
    manifestTmp,   \* sources: manifest.tmp on disk, see NoFile, Torn, Full
    pc,            \* where main() is; see Stopped and PoolAlive
    resume,        \* gifs: args.resume; sources: ~args.force
    limit,         \* args.limit
    manifest,      \* sources: the manifest object in memory
    processed,     \* processed_urls / existing_ids: the skip-set
    to_process,    \* catalog indices with a submitted future
    job,           \* catalog index -> the state of its future
    success, failed, removed,   \* the run's counters
    cur,           \* the future whose result the aggregation step is handling
    outbuf,        \* lines written to `out` and not yet flushed
    startLen,      \* Len(sink) right after the sink was opened by this run
    num_frames,    \* sampler: the target count K of the call
    n_frames,      \* sampler: the frame count F of the opened image
    indices,       \* sampler: the index list, or "error" when computing it raised
    spc,           \* sampler: "off" | "call" | "return" | "probe" | "sampled"
    probe,         \* mp4 sampler: what ffprobe reports of the video stream
    timestamps     \* mp4 sampler: the resolved duration and the -ss positions

vars == << engine, tsv, workers, sink, manifestDisk, manifestTmp, pc, resume, limit,
           manifest, processed, to_process, job, success, failed, removed,
           cur, outbuf, startLen, num_frames, n_frames, indices, spc,
           probe, timestamps >>

svars == << num_frames, n_frames, indices, spc, probe, timestamps >>

\* no video probed, no timestamps computed
NoProbe == [duration |-> 0, nb_frames |-> 0, num |-> 0, den |-> 0]
NoTimestamps == [duration |-> 0, ts |-> << >>]

Items == 1..NumItems

\* ---- sink lines ---------------------------------------------------------
NoId == << "", 0 >>
Rec(id) == [kind |-> "rec", id |-> id]          \* a well-formed record
Garbage == [kind |-> "garbage", id |-> NoId]    \* not parseable as JSON
NoIdLine == [kind |-> "noid", id |-> NoId]      \* a JSON object without the identity key

RECURSIVE SeqToSet(_)
SeqToSet(s) == IF s = << >> THEN {} ELSE {Head(s)} \cup SeqToSet(Tail(s))

RECURSIVE SelectIdx(_, _, _)
\* the indices i of s, in order, with keep[i]
SelectIdx(n, i, keep) ==
    IF i > n THEN << >>
    ELSE (IF keep[i] THEN << i >> ELSE << >>) \o SelectIdx(n, i + 1, keep)

Prefix(s, n) == IF n >= Len(s) THEN s ELSE SubSeq(s, 1, n)

\* ---- gifs: catalog ------------------------------------------------------
OldHosts == {"38.media", "33.media", "31.media"}

fix_tumblr_url(url) ==
    IF url[1] \in OldHosts THEN << "64.media", url[2] >> ELSE url

\* load_gifs: the rewritten URL of every entry, cut at `limit` entries (0 = all)
load_gifs(t, lim) ==
    LET all == [i \in 1..Len(t) |-> fix_tumblr_url(t[i])]
    IN  IF lim # 0 THEN Prefix(all, lim) ELSE all

\* ---- sources: catalog ---------------------------------------------------
ItemId(i) == << "id", i >>

items_needing_description(m, force) ==
    SelectIdx(NumItems, 1,
              [i \in Items |-> m[i].downloaded /\ (force \/ ~m[i].described)])

\* identity of catalog entry i as the running engine sees it
Ident(i) == IF engine = "gifs" THEN fix_tumblr_url(tsv[i]) ELSE ItemId(i)

\* ---- the resume scan ----------------------------------------------------
\* describe_gifs.main: json.loads(line); data["url"] with no handler:
\* the scan completes only if every line parses and has the key
GifsScanCompletes(s) == \A k \in 1..Len(s) : s[k].kind = "rec"

\* describe_sources.process_source: lines raising JSONDecodeError/KeyError are passed over
ScanIds(s) == { s[k].id : k \in { j \in 1..Len(s) : s[j].kind = "rec" } }

\* ---- one job: locate -> sample -> infer --------------------------------
\* what the collaborators can answer (the environment's choices)
FetchOutcomes == {"ok", "tombstone", "fetchError"}       \* urlopen in download_gif
LocalOutcomes == {"ok", "notFound", "missingField"}      \* item["local_file"], local_path.exists()
SampleOutcomes == {"ok", "sampleFail"}                   \* extract_frames
InferOutcomes == {"object", "unparsable", "nonobject", "serviceError"}   \* generate_content + json.loads

\* download_gif: bytes, or None for the tombstone redirect and for any exception
download_gif(o) ==
    CASE o = "tombstone" -> "None"
      [] o = "fetchError" -> "None"
      [] OTHER -> "bytes"

\* variant: the sampler's exception is not caught in the job
extract_frames_failed_uncaught == "raise"

\* describe_gif_from_data lines 168-170, describe_item lines 208-210:
\* an exception of extract_frames is caught and the job returns None
extract_frames_failed == "None"

\* process_gif, lines 179-181: what a failed download returns
process_gif_nodata == "REMOVED"

\* variant: the attempt loop gives up at the first unparsable answer
describe_gif_attempt_noretry(attempt, r) ==
    CASE r = "object" -> "dict"
      [] r = "nonobject" -> "nondict"
      [] r = "serviceError" -> "None"
      [] r = "unparsable" -> "None"

\* describe_gif_from_data, lines 152-170: one pass of the attempt loop.
\* attempt is the 0-based loop index, r the service's answer.
describe_gif_attempt(attempt, r) ==
    CASE r = "object" -> "dict"
      [] r = "nonobject" -> "nondict"          \* json.loads returned a list/str/number
      [] r = "serviceError" -> "None"          \* except Exception
      [] r = "unparsable" -> IF attempt + 1 < 1 + RETRIES THEN "retry" ELSE "None"

\* process_gif, lines 183-190: `if descriptions:` then {..., **descriptions}
process_gif_tail(desc) ==
    CASE desc = "None" -> "None"
      [] desc = "dict" -> "dict"
      [] desc = "nondict" -> "raise"           \* ** on a non-mapping: TypeError, no handler

\* describe_item, lines 201-204
describe_item_locate(o) ==
    CASE o = "missingField" -> "raise"         \* item["local_file"]: KeyError, no handler
      [] o = "notFound" -> "None"
      [] OTHER -> "path"

\* describe_item, lines 212-241: a single call, every exception turned into None
describe_item_infer(r) ==
    CASE r = "object" -> "dict"
      [] r = "nonobject" -> "None"             \* **desc raises TypeError inside the try
      [] r = "unparsable" -> "None"            \* except json.JSONDecodeError
      [] r = "serviceError" -> "None"          \* except Exception

NoJob == [st |-> "none", calls |-> 0, cause |-> "-", ret |-> "-"]
PendingJob == [st |-> "Pending", calls |-> 0, cause |-> "-", ret |-> "-"]
Returned(j, cause, ret) == [j EXCEPT !.st = "Returned", !.cause = cause, !.ret = ret]

InProgressStates == {"Locating", "Sampling", "Inferring"}
InProgress == { i \in Items : job[i].st \in InProgressStates }
PoolAlive == pc \in {"running", "flush", "count"}

\* variant: the worker thread counts its own failures
WorkerFrame_counts ==
    /\ failed' = failed + 1
    /\ UNCHANGED << engine, tsv, workers, sink, manifestDisk, pc, resume,
                    limit, manifest, processed, to_process, success,
                    removed, cur, outbuf, startLen, manifestTmp, svars >>

WorkerFrame == UNCHANGED << engine, tsv, workers, sink, manifestDisk, pc, resume,
                            limit, manifest, processed, to_process, success, failed,
                            removed, cur, outbuf, startLen, manifestTmp, svars >>

\* variant: the pool starts every submitted future at once
worker_free_unbounded == TRUE

\* ThreadPoolExecutor(max_workers=workers): one of the threads is idle
worker_free == Cardinality(InProgress) < workers

\* ThreadPoolExecutor: a queued future starts when one of the `workers` threads is free
JobStart(i) ==
    /\ PoolAlive
    /\ job[i].st = "Pending"
    /\ worker_free
    /\ job' = [job EXCEPT ![i].st = "Locating"]
    /\ WorkerFrame

JobLocate(i) ==
    /\ PoolAlive
    /\ job[i].st = "Locating"
    /\ \/ /\ engine = "gifs"
          /\ \E o \in FetchOutcomes :
                job' = [job EXCEPT ![i] =
                          IF download_gif(o) = "None"
                          THEN Returned(@, o, process_gif_nodata)
                          ELSE [@ EXCEPT !.st = "Sampling"]]
       \/ /\ engine = "sources"
          /\ \E o \in LocalOutcomes :
                job' = [job EXCEPT ![i] =
                          IF describe_item_locate(o) = "path"
                          THEN [@ EXCEPT !.st = "Sampling"]
                          ELSE Returned(@, o, describe_item_locate(o))]
    /\ WorkerFrame

\* extract_frames raising is caught by `except Exception` in both engines
\* variant: a failed sampling does not end the job
JobSample_continues(i) ==
    /\ PoolAlive
    /\ job[i].st = "Sampling"
    /\ \E o \in SampleOutcomes :
          job' = [job EXCEPT ![i] =
                    IF o = "sampleFail"
                    THEN [@ EXCEPT !.st = "Inferring", !.cause = o]
                    ELSE [@ EXCEPT !.st = "Inferring"]]
    /\ WorkerFrame

\* extract_frames inside the job's try block
JobSample(i) ==
    /\ PoolAlive
    /\ job[i].st = "Sampling"
    /\ \E o \in SampleOutcomes :
          job' = [job EXCEPT ![i] =
                    IF o = "sampleFail"
                    THEN Returned(@, o, extract_frames_failed)
                    ELSE [@ EXCEPT !.st = "Inferring"]]
    /\ WorkerFrame

JobInfer(i) ==
    /\ PoolAlive
    /\ job[i].st = "Inferring"
    /\ \E r \in InferOutcomes :
          LET j == job[i]
              called == [j EXCEPT !.calls = j.calls + 1]
              d == describe_gif_attempt(j.calls, r)
          IN  job' = [job EXCEPT ![i] =
                        IF engine = "gifs"
                        THEN IF d = "retry"
                             THEN [called EXCEPT !.cause = r]
                             ELSE Returned(called, r, process_gif_tail(d))
                        ELSE Returned(called, r, describe_item_infer(r))]
    /\ WorkerFrame

\* ---- the Coordinator ----------------------------------------------------
\* the process is not running: never started, or exited (normally with the
\* summary, with "Nothing to do!"/return 0, by an uncaught exception of the
\* resume scan or of future.result(), or stopped from outside)
Stopped == {"idle", "done", "nothing", "scan_error", "job_error", "killed"}

\* the catalogs a run can be given
TsvDistinct == [i \in Items |-> << "38.media", i >>]
TsvColliding ==
    [i \in Items |-> IF i = 1 THEN << "38.media", 1 >>
                     ELSE IF i = 2 THEN << "33.media", 1 >>
                     ELSE << "other", i >>]
ManifestItem(i, dl) == [id |-> ItemId(i), downloaded |-> dl, described |-> FALSE]
ManifestAll == [i \in Items |-> ManifestItem(i, TRUE)]
ManifestPartial == [i \in Items |-> ManifestItem(i, i # NumItems)]
NoManifest == [i \in Items |-> ManifestItem(i, FALSE)]
\* manifest.tmp: missing, opened with "w" and not completely dumped, complete
NoFile == [state |-> "absent", content |-> NoManifest]
Torn == [state |-> "torn", content |-> NoManifest]
Full(m) == [state |-> "full", content |-> m]
NoTsv == << >>

NoIndices == [ok |-> TRUE, idx |-> << >>]

InitialSinks == { << >>, << Garbage >>, << NoIdLine >> }

Init ==
    /\ engine \in {"gifs", "sources"}
    /\ tsv \in (IF engine = "gifs" THEN {TsvDistinct, TsvColliding} ELSE {NoTsv})
    /\ manifestDisk \in (IF engine = "sources" THEN {ManifestAll, ManifestPartial}
                         ELSE {NoManifest})
    /\ manifestTmp = NoFile
    /\ sink \in InitialSinks
    /\ workers = 1
    /\ pc = "idle"
    /\ resume = FALSE
    /\ limit = 0
    /\ manifest = NoManifest
    /\ processed = {}
    /\ to_process = {}
    /\ job = [i \in Items |-> NoJob]
    /\ success = 0 /\ failed = 0 /\ removed = 0
    /\ cur = 0
    /\ outbuf = << >>
    /\ startLen = 0
    /\ num_frames = NUM_FRAMES /\ n_frames = 1 /\ indices = NoIndices /\ spc = "off"
    /\ probe = NoProbe /\ timestamps = NoTimestamps

\* the arguments and the zeroed counters of a new process
FreshMemory(r, lim, w) ==
    /\ resume' = r /\ limit' = lim /\ workers' = w
    /\ success' = 0 /\ failed' = 0 /\ removed' = 0
    /\ cur' = 0 /\ outbuf' = << >>

\* the process exits: its memory is gone, the files stay
ExitMemory ==
    /\ manifest' = NoManifest
    /\ processed' = {} /\ to_process' = {}
    /\ job' = [i \in Items |-> NoJob]
    /\ success' = 0 /\ failed' = 0 /\ removed' = 0
    /\ cur' = 0 /\ outbuf' = << >>

\* variant: nothing is filtered out
Unprocessed_all(idents, skip) == DOMAIN idents

\* [g for g in gifs if g["url"] not in processed_urls] /
\* [i for i in to_process if i["id"] not in existing_ids]:
\* idents maps the candidates to their identities
Unprocessed(idents, skip) == { i \in DOMAIN idents : idents[i] \notin skip }

\* variant: the sink is always opened for writing
gifs_output_mode_w(r) == "w"

\* output_mode = "a" if args.resume else "w"
gifs_output_mode(r) == IF r THEN "a" ELSE "w"

\* output_mode = "a" if existing_ids else "w"; if force: "w"
sources_output_mode(existing_ids, force) ==
    IF force THEN "w" ELSE IF existing_ids # {} THEN "a" ELSE "w"

\* open(path, mode) on the file holding s
Opened(s, mode) == IF mode = "a" THEN s ELSE << >>

\* describe_gifs.main up to the submission of the futures (lines 206-241)
GifsStart(r, lim, w) ==
    /\ engine = "gifs"
    /\ pc \in Stopped
    /\ FreshMemory(r, lim, w)
    /\ LET gifs == load_gifs(tsv, lim)
           ids == IF r THEN ScanIds(sink) ELSE {}
           todo == Unprocessed(gifs, ids)
       IN  IF r /\ ~GifsScanCompletes(sink)
           THEN \* json.loads(line) / data["url"] raised out of main
                /\ pc' = "scan_error"
                /\ processed' = {} /\ to_process' = {}
                /\ job' = [i \in Items |-> NoJob]
                /\ sink' = sink
           ELSE IF todo = {}
           THEN \* "Nothing to do!"
                /\ pc' = "nothing"
                /\ processed' = {} /\ to_process' = {}
                /\ job' = [i \in Items |-> NoJob]
                /\ sink' = sink
           ELSE /\ pc' = "running"
                /\ processed' = ids
                /\ to_process' = todo
                /\ job' = [i \in Items |-> IF i \in todo THEN PendingJob ELSE NoJob]
                /\ sink' = Opened(sink, gifs_output_mode(r))
    /\ startLen' = Len(sink')
    /\ UNCHANGED << engine, tsv, manifestDisk, manifest, manifestTmp, svars >>

\* describe_sources: main's load_manifest, then process_source up to the
\* submission of the futures (lines 335, 247-288); r = ~args.force
SourcesStart(r, lim, w) ==
    /\ engine = "sources"
    /\ pc \in Stopped
    /\ FreshMemory(r, lim, w)
    /\ LET need == items_needing_description(manifestDisk, ~r)
           cut == IF lim # 0 THEN Prefix(need, lim) ELSE need
           existing_ids == IF r /\ cut # << >> THEN ScanIds(sink) ELSE {}
           todo == Unprocessed([i \in SeqToSet(cut) |-> ItemId(i)], existing_ids)
       IN  IF todo = {}
           THEN \* return 0, before or after the scan
                /\ pc' = "nothing"
                /\ manifest' = NoManifest
                /\ processed' = {} /\ to_process' = {}
                /\ job' = [i \in Items |-> NoJob]
                /\ sink' = sink
           ELSE /\ pc' = "running"
                /\ manifest' = manifestDisk
                /\ processed' = existing_ids
                /\ to_process' = todo
                /\ job' = [i \in Items |-> IF i \in todo THEN PendingJob ELSE NoJob]
                /\ sink' = Opened(sink, sources_output_mode(existing_ids, ~r))
    /\ startLen' = Len(sink')
    /\ UNCHANGED << engine, tsv, manifestDisk, manifestTmp, svars >>

\* variant: the REMOVED sentinel is not told apart from a failure
gifs_branch_nosentinel(result) ==
    CASE result = "raise" -> "raise"
      [] result = "dict" -> "write"
      [] OTHER -> "failed"

\* which branch of the aggregation section a result takes
\* describe_gifs.main lines 244-253; "raise": future.result() re-raises
gifs_branch(result) ==
    CASE result = "raise" -> "raise"
      [] result = "REMOVED" -> "removed"
      [] result = "dict" -> "write"
      [] OTHER -> "failed"

\* describe_sources.process_source lines 292-300
sources_branch(result) ==
    CASE result = "raise" -> "raise"
      [] result = "dict" -> "write"
      [] OTHER -> "failed"

Branch(result) == IF engine = "gifs" THEN gifs_branch(result) ELSE sources_branch(result)

\* as_completed hands over a finished future; the loop body up to out.write
Consume(i) ==
    /\ pc = "running"
    /\ job[i].st = "Returned"
    /\ LET b == Branch(job[i].ret)
       IN  IF b = "raise"
           THEN \* the exception leaves the loop, the with-blocks and main
                /\ pc' = "job_error"
                /\ ExitMemory
           ELSE /\ pc' = IF b = "write" THEN "flush" ELSE "running"
                /\ job' = [job EXCEPT ![i].st = "Consumed"]
                /\ cur' = i
                /\ removed' = IF b = "removed" THEN removed + 1 ELSE removed
                /\ failed' = IF b = "failed" THEN failed + 1 ELSE failed
                /\ outbuf' = IF b = "write" THEN << Rec(Ident(i)) >> ELSE outbuf
                /\ UNCHANGED << manifest, processed, to_process, success >>
    /\ UNCHANGED << engine, tsv, workers, sink, manifestDisk, resume, limit,
                    startLen, manifestTmp, svars >>

\* variant: the line stays in the buffer, the loop goes on to count it
Flush_missing ==
    /\ pc = "flush"
    /\ pc' = "count"
    /\ UNCHANGED << engine, tsv, workers, sink, manifestDisk, resume, limit, manifest,
                    processed, to_process, job, success, failed, removed, cur, outbuf,
                    startLen, manifestTmp, svars >>

\* out.flush()
Flush ==
    /\ pc = "flush"
    /\ sink' = sink \o outbuf
    /\ outbuf' = << >>
    /\ pc' = "count"
    /\ UNCHANGED << engine, tsv, workers, manifestDisk, resume, limit, manifest,
                    processed, to_process, job, success, failed, removed, cur, startLen,
                    manifestTmp, svars >>

\* variant: the success branch does not count
Count_forgotten ==
    /\ pc = "count"
    /\ manifest' = IF engine = "sources"
                   THEN [manifest EXCEPT ![cur].described = TRUE]
                   ELSE manifest
    /\ pc' = "running"
    /\ UNCHANGED << engine, tsv, workers, sink, manifestDisk, resume, limit,
                    processed, to_process, job, success, failed, removed, cur, outbuf,
                    startLen, manifestTmp, svars >>

\* item["described"] = True (sources); success += 1
Count ==
    /\ pc = "count"
    /\ manifest' = IF engine = "sources"
                   THEN [manifest EXCEPT ![cur].described = TRUE]
                   ELSE manifest
    /\ success' = success + 1
    /\ pc' = "running"
    /\ UNCHANGED << engine, tsv, workers, sink, manifestDisk, resume, limit,
                    processed, to_process, job, failed, removed, cur, outbuf, startLen,
                    manifestTmp, svars >>

AllConsumed == \A i \in to_process : job[i].st = "Consumed"

\* the as_completed loop is exhausted and the sink closed.
\* gifs: the summary is printed and main returns; sources: save_manifest is next
Finish ==
    /\ pc = "running"
    /\ AllConsumed
    /\ IF engine = "sources"
       THEN /\ pc' = "save"
            /\ UNCHANGED << manifest, processed, to_process, job, success, failed,
                            removed, cur, outbuf >>
       ELSE /\ pc' = "done"
            /\ ExitMemory
    /\ UNCHANGED << engine, tsv, workers, sink, manifestDisk, resume, limit,
                    startLen, manifestTmp, svars >>

\* the frame of the steps of save_manifest before the rename
SaveFrame == UNCHANGED << engine, tsv, workers, sink, resume, limit, manifest,
                          processed, to_process, job, success, failed, removed, cur,
                          outbuf, startLen, svars >>

\* variant: save_manifest opens manifest.json itself; the file holds the new
\* record of the first item and not yet the others
SaveOpen_inplace ==
    /\ pc = "save"
    /\ manifestDisk' = [i \in Items |-> IF i = 1 THEN manifest[i] ELSE manifestDisk[i]]
    /\ pc' = "dump"
    /\ UNCHANGED manifestTmp
    /\ SaveFrame

\* save_manifest: open(tmp, "w") truncates manifest.tmp
SaveOpen ==
    /\ pc = "save"
    /\ manifestTmp' = Torn
    /\ pc' = "dump"
    /\ UNCHANGED manifestDisk
    /\ SaveFrame

\* save_manifest: json.dump completes and the with-block closes manifest.tmp
SaveDump ==
    /\ pc = "dump"
    /\ manifestTmp' = Full(manifest)
    /\ pc' = "rename"
    /\ UNCHANGED manifestDisk
    /\ SaveFrame

\* save_manifest: tmp.rename(manifest.json) replaces the file in one step;
\* process_source and main return
SaveRename ==
    /\ pc = "rename"
    /\ manifestDisk' = manifestTmp.content
    /\ manifestTmp' = NoFile
    /\ pc' = "done"
    /\ ExitMemory
    /\ UNCHANGED << engine, tsv, workers, sink, resume, limit, startLen, svars >>

\* the process is stopped from outside (Ctrl-C, kill): a written, unflushed
\* line reaches the file only if `out` still got closed
Interrupt ==
    /\ pc \in {"running", "flush", "count", "save", "dump", "rename"}
    /\ pc' = "killed"
    /\ sink' \in (IF outbuf # << >> THEN {sink, sink \o outbuf} ELSE {sink})
    /\ ExitMemory
    /\ UNCHANGED << engine, tsv, workers, manifestDisk, resume, limit, startLen, manifestTmp, svars >>

Limits == 0..MaxLimit
WorkerCounts == 1..MaxWorkers

\* the steps of the workers and of the Coordinator
Steps ==
    \/ \E i \in Items : JobStart(i)
    \/ \E i \in Items : JobLocate(i)
    \/ \E i \in Items : JobSample(i)
    \/ \E i \in Items : JobInfer(i)
    \/ \E i \in Items : Consume(i)
    \/ Flush
    \/ Count
    \/ Finish
    \/ SaveOpen
    \/ SaveDump
    \/ SaveRename

\* everything that happens to a started run
Work ==
    \/ Steps
    \/ Interrupt

Next ==
    \/ \E r \in BOOLEAN, lim \in Limits, w \in WorkerCounts : GifsStart(r, lim, w)
    \/ \E r \in BOOLEAN, lim \in Limits, w \in WorkerCounts : SourcesStart(r, lim, w)
    \/ Work

Spec == Init /\ [][Next]_vars

\* every run is started with resume enabled (gifs: --resume; sources: no --force)
NextResume ==
    \/ \E lim \in Limits, w \in WorkerCounts : GifsStart(TRUE, lim, w)
    \/ \E lim \in Limits, w \in WorkerCounts : SourcesStart(TRUE, lim, w)
    \/ Work

SpecResume == Init /\ [][NextResume]_vars

\* runs that nobody stops from outside, in which every thread that can take
\* a step eventually takes one (every job returns, the loop goes on)
NextUninterrupted ==
    \/ \E r \in BOOLEAN, lim \in Limits, w \in WorkerCounts : GifsStart(r, lim, w)
    \/ \E r \in BOOLEAN, lim \in Limits, w \in WorkerCounts : SourcesStart(r, lim, w)
    \/ Steps

FairSpec == Init /\ [][NextUninterrupted]_vars /\ WF_vars(Steps)

\* ---- the frame sampler's index selection ------------------------------
\* Python's round() of the quotient n / d of two non-negative integers:
\* to the nearest integer, a tie to the even one
py_round(n, d) ==
    LET q == n \div d
        r == n % d
    IN  IF 2 * r < d THEN q
        ELSE IF 2 * r > d THEN q + 1
        ELSE IF q % 2 = 0 THEN q ELSE q + 1

\* variant: the span is n_frames instead of n_frames - 1
frame_indices_span(F, K) ==
    IF F <= K
    THEN [ok |-> TRUE, idx |-> [i \in 1..F |-> i - 1]]
    ELSE IF K - 1 = 0
    THEN [ok |-> FALSE, idx |-> << >>]
    ELSE [ok |-> TRUE, idx |-> [i \in 1..K |-> py_round((i - 1) * F, K - 1)]]

\* extract_frames / extract_frames_gif: the indices for F = n_frames and
\* K = num_frames; ok = FALSE when the comprehension raises ZeroDivisionError
frame_indices(F, K) ==
    IF F <= K
    THEN [ok |-> TRUE, idx |-> [i \in 1..F |-> i - 1]]
    ELSE IF K - 1 = 0
    THEN [ok |-> FALSE, idx |-> << >>]
    ELSE [ok |-> TRUE, idx |-> [i \in 1..K |-> py_round((i - 1) * (F - 1), K - 1)]]

SamplerInit ==
    /\ engine = "gifs" /\ tsv = NoTsv /\ manifestDisk = NoManifest /\ sink = << >>
    /\ manifestTmp = NoFile
    /\ workers = 1 /\ pc = "idle" /\ resume = FALSE /\ limit = 0
    /\ manifest = NoManifest /\ processed = {} /\ to_process = {}
    /\ job = [i \in Items |-> NoJob]
    /\ success = 0 /\ failed = 0 /\ removed = 0
    /\ cur = 0 /\ outbuf = << >> /\ startLen = 0
    /\ num_frames \in 1..MaxK
    /\ n_frames \in 1..MaxF
    /\ indices = NoIndices
    /\ spc = "call"
    /\ probe = NoProbe /\ timestamps = NoTimestamps

\* one call of the sampler on an image with n_frames frames
SampleFrames ==
    /\ spc = "call"
    /\ indices' = frame_indices(n_frames, num_frames)
    /\ spc' = "return"
    /\ UNCHANGED << engine, tsv, workers, sink, manifestDisk, manifestTmp, pc, resume,
                    limit, manifest, processed, to_process, job, success, failed,
                    removed, cur, outbuf, startLen, num_frames, n_frames,
                    probe, timestamps >>

SamplerNext == SampleFrames

SamplerSpec == SamplerInit /\ [][SamplerNext]_vars

\* ---- the mp4 sampler's timestamps -------------------------------------
\* Times are in milliseconds. The probed values below make nb * den / num a
\* whole number of milliseconds.
NominalDuration == 1000      \* duration = 1.0
EndMargin == 10              \* duration - 0.01
Durations == {0, 800, 2000}  \* video_stream.get("duration", 0)
FrameCounts == {0, 12, 60}   \* video_stream.get("nb_frames", 0)
FrameRates == {<<30, 1>>, <<25, 1>>, <<0, 0>>}   \* r_frame_rate, "0/0" when unknown
Probes == { [duration |-> d, nb_frames |-> nb, num |-> r[1], den |-> r[2]] :
              d \in Durations, nb \in FrameCounts, r \in FrameRates }

MinOf(a, b) == IF a <= b THEN a ELSE b
MaxOf(a, b) == IF a >= b THEN a ELSE b

\* extract_frames_mp4, lines 148-160: the duration field, else
\* nb_frames / r_frame_rate, else the nominal second
video_duration(p) ==
    LET d0 == p.duration
        d1 == IF d0 = 0
              THEN IF p.nb_frames > 0 /\ p.num > 0
                   THEN (p.nb_frames * p.den * 1000) \div p.num
                   ELSE d0
              ELSE d0
    IN  IF d1 <= 0 THEN NominalDuration ELSE d1

\* f"{ts:.3f}" of ts = n / d milliseconds: the nearest whole millisecond
format_3f(n, d) == py_round(n, d)

\* extract_frames_mp4, lines 163-168: the positions handed to ffmpeg -ss
mp4_timestamps(duration, K) ==
    IF K = 1
    THEN << 0 >>
    ELSE LET raw == [i \in 1..K |-> format_3f((i - 1) * duration, K - 1)]
         IN  [raw EXCEPT ![K] = MinOf(raw[K], MaxOf(0, duration - EndMargin))]

Mp4Init ==
    /\ engine = "sources" /\ tsv = NoTsv /\ manifestDisk = NoManifest /\ sink = << >>
    /\ manifestTmp = NoFile
    /\ workers = 1 /\ pc = "idle" /\ resume = FALSE /\ limit = 0
    /\ manifest = NoManifest /\ processed = {} /\ to_process = {}
    /\ job = [i \in Items |-> NoJob]
    /\ success = 0 /\ failed = 0 /\ removed = 0
    /\ cur = 0 /\ outbuf = << >> /\ startLen = 0
    /\ num_frames \in 1..MaxK
    /\ n_frames = 1
    /\ indices = NoIndices
    /\ probe \in Probes
    /\ timestamps = NoTimestamps
    /\ spc = "probe"

\* one call of extract_frames_mp4 up to the timestamps list
ExtractFramesMp4 ==
    /\ spc = "probe"
    /\ timestamps' = [duration |-> video_duration(probe),
                      ts |-> mp4_timestamps(video_duration(probe), num_frames)]
    /\ spc' = "sampled"
    /\ UNCHANGED << engine, tsv, workers, sink, manifestDisk, manifestTmp, pc, resume,
                    limit, manifest, processed, to_process, job, success, failed,
                    removed, cur, outbuf, startLen, num_frames, n_frames, indices,
                    probe >>

Mp4Next == ExtractFramesMp4

Mp4Spec == Mp4Init /\ [][Mp4Next]_vars

\* ======================================================================
\* Properties
\* ======================================================================
Finished(i) == job[i].st \in {"Returned", "Consumed"}
ConsumedJobs == { i \in to_process : job[i].st = "Consumed" }
ConsumedWith(causes) == { i \in ConsumedJobs : job[i].cause \in causes }
\* records appended to the sink by the running process
Written == Len(sink) - startLen
\* the as_completed loop is exhausted: the counters are those of the summary
LoopDone == (pc = "running" /\ AllConsumed) \/ pc = "save"
RecordIds == ScanIds(sink)

\* C1 (as claimed): under resume-mode runs, interrupted anywhere, the sink
\* never holds two records with the same identity, and the identities in it
\* are identities of the catalog.
C1_IdempotentResume ==
    /\ \A a, b \in 1..Len(sink) :
          (a # b /\ sink[a].kind = "rec" /\ sink[b].kind = "rec") => sink[a].id # sink[b].id
    /\ RecordIds \subseteq { Ident(i) : i \in Items }

\* C2 (as claimed): whatever way a sub-step of a job fails, the job returns
\* a result (it does not raise) and the Coordinator's loop is never left by
\* an exception of a job.
C2_ErrorContainment ==
    /\ \A i \in Items : Finished(i) => job[i].ret # "raise"
    /\ pc # "job_error"

\* C3: a run whose jobs all succeed except exactly one that fails at frame
\* sampling consumes all N outcomes and ends with success = N-1, failed = 1
\* and N-1 records written; a run in which jobs only succeed or fail at
\* sampling is never ended by an exception of a job.
C3_Batch == { i \in to_process : job[i].cause = "sampleFail" }
C3_Case ==
    /\ LoopDone
    /\ Cardinality(C3_Batch) = 1
    /\ \A i \in to_process \ C3_Batch : job[i].cause = "object"
C3_FailureIsolation ==
    /\ [](C3_Case => /\ success = Cardinality(to_process) - 1
                     /\ failed = 1
                     /\ removed = 0
                     /\ Written = Cardinality(to_process) - 1)
    /\ [][ (PoolAlive /\ \A i \in to_process : job[i].cause \in {"-", "sampleFail", "object"})
             => pc' # "job_error" ]_vars
C3_Witness ==
    /\ C3_Case
    /\ Cardinality(to_process) = 2
    /\ success = 1 /\ failed = 1 /\ Written = 1

\* C4 (as claimed): in the gifs engine a fetch that fails other than by the
\* tombstone redirect yields Failed and is counted as failed, not as removed.
C4_FetchErrorsFail ==
    engine = "gifs" =>
        /\ \A i \in Items : (Finished(i) /\ job[i].cause = "fetchError") => job[i].ret = "None"
        /\ PoolAlive => removed <= Cardinality(ConsumedWith({"tombstone"}))

\* C5: a fetch that resolves to the tombstone location yields Removed; the
\* consumption of that outcome adds one to removed, leaves failed and success
\* alone and writes nothing to the sink.
C5_RemovalClassification ==
    /\ [](engine = "gifs" =>
            \A i \in Items : (Finished(i) /\ job[i].cause = "tombstone") => job[i].ret = "REMOVED")
    /\ [][ \A i \in Items :
             (job[i].st = "Returned" /\ job[i].cause = "tombstone" /\ job'[i].st = "Consumed")
                => /\ removed' = removed + 1
                   /\ failed' = failed /\ success' = success
                   /\ sink' = sink /\ outbuf' = outbuf
                   /\ pc' = "running" ]_vars
C5_Witness ==
    /\ pc = "running"
    /\ \E i \in to_process : job[i].st = "Consumed" /\ job[i].cause = "tombstone"
    /\ removed = 1 /\ failed = 0 /\ Written = 0

\* C6 (as claimed): a resume-mode start over a sink with a malformed line
\* does not abort in the scan, and the skip-set of a resumed run holds the
\* identity of every well-formed record that was in the sink.
C6_ScanTolerant ==
    /\ pc # "scan_error"
    /\ (PoolAlive /\ resume) => ScanIds(SubSeq(sink, 1, startLen)) \subseteq processed

\* C7: gifs engine, retry count 1: an item whose first answer is unparsable
\* and whose second is a structured object returns a record (Success); an
\* item whose answers are both unparsable returns None (Failed) after exactly
\* 2 calls; the records written by the run are exactly one per consumed
\* Success and none for a Failed item.
C7_BoundedRetry ==
    engine = "gifs" =>
        /\ \A i \in Items :
              /\ job[i].calls <= 1 + RETRIES
              /\ (job[i].st = "Inferring" /\ job[i].calls > 0) => job[i].cause = "unparsable"
              /\ (Finished(i) /\ job[i].cause = "object") => job[i].ret = "dict"
              /\ (Finished(i) /\ job[i].cause = "unparsable")
                    => (job[i].ret = "None" /\ job[i].calls = 2)
        /\ PoolAlive =>
              /\ Written = Cardinality(ConsumedWith({"object"})) - (IF pc = "flush" THEN 1 ELSE 0)
              /\ success = Cardinality(ConsumedWith({"object"})) - (IF pc \in {"flush", "count"} THEN 1 ELSE 0)
              /\ failed = Cardinality(ConsumedWith({"unparsable", "sampleFail", "serviceError"}))
C7_Witness ==
    /\ engine = "gifs" /\ pc = "running"
    /\ \E i, k \in to_process :
          /\ job[i].st = "Consumed" /\ job[i].cause = "object" /\ job[i].calls = 2
          /\ job[k].st = "Consumed" /\ job[k].cause = "unparsable" /\ job[k].calls = 2
    /\ success = 1 /\ failed = 1 /\ Written = 1

\* C8 (as claimed): sources engine: an item whose first answer is unparsable
\* gets a second call before the job gives up.
C8_SourcesRetry ==
    engine = "sources" =>
        \A i \in Items : (Finished(i) /\ job[i].cause = "unparsable") => job[i].calls = 2

\* C9: while a run lives, up to and including its summary, the success
\* counter is at most the number of records the run has flushed to the sink.
C9_DurabilityOrder == (PoolAlive \/ pc = "save") => success <= Written
C9_Witness == PoolAlive /\ success = 2 /\ Written = 2

\* ---- the sampler (checked under SamplerSpec) ---------------------------
NonDecreasing(q) == \A a, b \in 1..Len(q) : a <= b => q[a] <= q[b]
AllFrames(F) == [i \in 1..F |-> i - 1]
EndpointProperty(F, K) ==
    /\ indices.ok
    /\ NonDecreasing(indices.idx)
    /\ Len(indices.idx) = K
    /\ indices.idx[1] = 0
    /\ indices.idx[K] = F - 1

\* C10 (as claimed): for every K >= 1 and F >= K the index sequence is
\* defined, non-decreasing, of length K, starts at 0 and ends at F-1; for
\* F < K it is exactly 0..F-1.
C10_AsClaimed ==
    spc = "return" =>
        IF n_frames >= num_frames
        THEN EndpointProperty(n_frames, num_frames)
        ELSE indices.ok /\ indices.idx = AllFrames(n_frames)

\* C10 (amended): the endpoint property holds for every K >= 2 and F >= K,
\* and for K = 1 with F = 1; for F < K the sequence is exactly 0..F-1; for
\* K = 1 and F >= 2 the index computation raises (division by K-1 = 0).
C10_SamplingEndpoints ==
    spc = "return" =>
        IF n_frames < num_frames
        THEN indices.ok /\ indices.idx = AllFrames(n_frames)
        ELSE IF num_frames >= 2 \/ n_frames = 1
        THEN EndpointProperty(n_frames, num_frames)
        ELSE ~indices.ok
C10_Witness ==
    /\ spc = "return"
    /\ num_frames = 5 /\ n_frames = 12
    /\ indices = [ok |-> TRUE, idx |-> << 0, 3, 6, 8, 11 >>]

\* ---- the Coordinator's policies -----------------------------------------
IsRec(line) == line.kind = "rec"
WellFormed(s) == SelectSeq(s, IsRec)
IsPrefix(a, b) == Len(a) <= Len(b) /\ SubSeq(b, 1, Len(a)) = a
RunLive == PoolAlive \/ pc \in {"save", "dump", "rename"}
Done == success + failed + removed
\* the lines this run has written, flushed or not
OwnLines == SubSeq(sink, startLen + 1, Len(sink)) \o outbuf

\* C11: in a run, an item whose identity is in the skip-set built from the
\* existing sink has no job, no line written by the run, an unchanged
\* described flag, and the counters count scheduled jobs only.
C11_SkipPolicy ==
    RunLive =>
        /\ \A i \in Items :
              Ident(i) \in processed =>
                 /\ job[i] = NoJob
                 /\ i \notin to_process
                 /\ \A k \in 1..Len(OwnLines) : OwnLines[k].id # Ident(i)
                 /\ engine = "sources" => manifest[i].described = manifestDisk[i].described
        /\ Done <= Cardinality(to_process)
C11_Witness ==
    /\ PoolAlive /\ resume
    /\ \E i \in Items : Ident(i) \in processed
    /\ success = 1 /\ Cardinality(to_process) = 1

C14_ConcurrencyBound ==
    /\ workers >= 1
    /\ Cardinality(InProgress) <= workers
C14_Witness ==
    /\ PoolAlive /\ workers = 1
    /\ Cardinality(InProgress) = 1
    /\ \E i \in to_process : job[i].st = "Pending"

\* C12 (as claimed): an uninterrupted run that scheduled a job leaves the
\* result loop only by reaching the summary, and at the summary
\* success + failed + removed is the number of jobs scheduled.
SummaryReached == pc \in {"save", "dump", "rename", "done"}
C12_Termination ==
    /\ [](LoopDone => Done = Cardinality(to_process))
    /\ [][PoolAlive => (PoolAlive' \/ SummaryReached')]_vars

\* the liveness that remains true: a run ends with the summary or with the
\* exception of a job
C12_EndsSomehow == PoolAlive ~> (SummaryReached \/ pc = "job_error")

\* C15 (as claimed): sources engine: before the first run and after every
\* completed run, every item described in the manifest on disk has a record
\* with its identity in the sink.
C15_DescribedHasRecord ==
    (engine = "sources" /\ pc \in {"idle", "done"}) =>
        \A i \in Items : manifestDisk[i].described => ItemId(i) \in RecordIds

\* C16: within a run a job only moves Pending -> in progress -> returned
\* -> consumed, never back, and its result stays what it returned; every
\* consumed job has exactly one of the outcomes Success (a record), Removed,
\* Failed; success + failed + removed is the number of jobs whose
\* aggregation step is complete; no counter decreases during the run.
Outcomes == {"dict", "REMOVED", "None"}
Aggregating == IF pc \in {"flush", "count"} THEN 1 ELSE 0
C16_StepOk(i) ==
    /\ job[i].st = "none" => job'[i] = job[i]
    /\ job[i].st = "Pending" => job'[i].st \in {"Pending"} \cup InProgressStates
    /\ job[i].st \in InProgressStates => job'[i].st \in InProgressStates \cup {"Returned"}
    /\ job[i].st = "Returned" => job'[i] \in {job[i], [job[i] EXCEPT !.st = "Consumed"]}
    /\ job[i].st = "Consumed" => job'[i] = job[i]
WorkerStep ==
    \E i \in Items : /\ job'[i] # job[i]
                     /\ job'[i].st \in InProgressStates \cup {"Returned"}
SharedState == << success, failed, removed, sink, outbuf, manifest, manifestDisk,
                  processed, to_process, cur >>
C17_SingleWriter ==
    [][ /\ WorkerStep => UNCHANGED SharedState
        /\ (RunLive /\ RunLive' /\ SharedState' # SharedState) =>
              /\ pc \in {"running", "flush", "count"}
              /\ \A i \in Items : job'[i] # job[i] => (i = cur' /\ job'[i].st = "Consumed")
      ]_vars
C17_Witness ==
    /\ PoolAlive /\ workers = 2
    /\ success = 1
    /\ \E i \in Items : job[i].st = "Inferring" /\ job[i].calls = 1

\* C18: manifest.json changes only in the rename step of save_manifest,
\* which runs after every submitted job was consumed, and what it then
\* holds is the whole manifest of the run; so whenever the process stops,
\* the file is the pre-run manifest or the post-run one. The partly written
\* file is only ever manifest.tmp.
C18_ManifestPersistence ==
    [][ /\ manifestDisk' # manifestDisk =>
              /\ pc = "rename"
              /\ AllConsumed
              /\ manifestTmp = Full(manifest)
              /\ manifestDisk' = manifest
        /\ (RunLive /\ pc' = "killed") => manifestDisk' = manifestDisk
      ]_vars
C18_Witness ==
    /\ pc = "killed"
    /\ manifestTmp = Torn
    /\ \E i \in Items : manifestDisk[i].described
    /\ \E i \in Items : manifestDisk[i].downloaded /\ ~manifestDisk[i].described /\ ItemId(i) \in RecordIds

\* C19: a job samples only after its locate step succeeded and calls the
\* inference service only after its sampling succeeded: a job whose locate
\* or sampling step failed has made no inference call and makes none.
EarlyFailures == {"tombstone", "fetchError", "notFound", "missingField", "sampleFail"}
C19_StepOrder(i) ==
    /\ (job'[i].st = "Sampling" /\ job[i].st # "Sampling") =>
          job[i].st = "Locating" /\ job'[i].cause = "-"
    /\ (job'[i].st = "Inferring" /\ job[i].st # "Inferring") =>
          job[i].st = "Sampling" /\ job'[i].cause = "-" /\ job'[i].calls = 0
    /\ job'[i].calls > job[i].calls =>
          /\ job[i].st = "Inferring"
          /\ job[i].cause \notin EarlyFailures
          /\ job'[i].calls = job[i].calls + 1
    /\ (job[i].st = "Locating" /\ job'[i].st = "Returned") =>
          job'[i].cause \in EarlyFailures \ {"sampleFail"}
    /\ (job[i].st = "Sampling" /\ job'[i].st = "Returned") =>
          job'[i].cause = "sampleFail"
C19_SubStepOrdering ==
    /\ [](\A i \in Items : job[i].cause \in EarlyFailures => job[i].calls = 0)
    /\ [][\A i \in Items : C19_StepOrder(i)]_vars
C19_Witness ==
    /\ PoolAlive
    /\ \E i \in Items : job[i].st = "Consumed" /\ job[i].cause = "sampleFail" /\ job[i].calls = 0
    /\ \E i \in Items : job[i].st = "Returned" /\ job[i].calls = 1

\* C20: when neither the duration field nor nb_frames / r_frame_rate gives
\* a duration, the mp4 sampler takes the nominal duration of one second and
\* asks for exactly one frame, whatever the target count K.
Unresolvable(p) == p.duration <= 0 /\ ~(p.nb_frames > 0 /\ p.num > 0)
C20_SingleFrameFallback ==
    (spc = "sampled" /\ Unresolvable(probe)) =>
        /\ timestamps.duration = NominalDuration
        /\ Len(timestamps.ts) = 1

\* C21: in the manifest engine, when a resume-mode run has completed
\* (returned from process_source, with or without work to do), every item
\* with a record in the sink has described = true in manifest.json, also
\* when an earlier run was stopped between a sink write and the save.
RunCompleted == pc \in {"done", "nothing"}
C21_FlagReconciliation ==
    (engine = "sources" /\ resume /\ RunCompleted) =>
        \A i \in Items : ItemId(i) \in RecordIds => manifestDisk[i].described

\* C22: in the manifest engine, a resume-mode run started with a limit
\* L >= 1 while some downloaded item has neither described = true nor a
\* record in the sink schedules at least one job.
Undescribed(i) ==
    /\ manifestDisk[i].downloaded
    /\ ~manifestDisk[i].described
    /\ ItemId(i) \notin RecordIds
RunStarts == pc \in Stopped /\ pc' \in {"running", "nothing"}
C22_ProgressUnderLimit ==
    [][ ( /\ engine = "sources"
          /\ RunStarts /\ resume' /\ limit' >= 1
          /\ \E i \in Items : Undescribed(i) )
        => to_process' # {} ]_vars

====
